---- MODULE Spec2Model ----
(***************************************************************************)
(* codebase_extractor.py: the walk of a directory tree, the classification *)
(* of its entries by exclusion and inclusion patterns, and the assembly of *)
(* the aggregated output file, as a state machine over one or more runs of *)
(* process_codebase.                                                       *)
(*                                                                         *)
(* Strings are sequences of one-character strings, so that fnmatch, the    *)
(* substring tests and sorted() are computed on characters.  A path is a   *)
(* sequence of components; PathStr renders it with separators.  A text     *)
(* (file content, output file) is a sequence of chunks, see count_tokens.  *)
(***************************************************************************)
EXTENDS Integers, Sequences, FiniteSets, TLC

VARIABLES
    fs,               \* the scanned tree: path relative to the root -> node
                      \* (<<>> is the root itself; the empty function: no root)
    root_dir,         \* argument root_dir, absolute, as path components
    output_file,      \* argument output_file, absolute, as path components
    out_content,      \* the file at output_file: NoFile or its text
    exclusions,       \* the caller's exclusion list (process_codebase appends to it)
    include_arg,      \* argument include_patterns: None or a list
    overwrite,        \* argument overwrite
    tiktoken,         \* TIKTOKEN_AVAILABLE
    fsorder,          \* the order in which the filesystem lists a directory
    pc,               \* position of the current run in process_codebase
    include_patterns, \* local include_patterns (after normalisation)
    all_files,        \* local all_files
    included_files,   \* local included_files
    tree,             \* local tree: the lines generate_tree returned
    all_content,      \* local all_content
    total_tokens,     \* local total_tokens
    prompts,          \* the prompts input() raised in this run, with the raw answers
    writes,           \* number of writes to output_file in this run
    pre_content,      \* out_content when this run started
    run,              \* index of the current run
    prev_output,      \* what the previous run wrote (NoFile before the first run)
    probe             \* a single call of should_exclude: its arguments and result

vars == <<fs, root_dir, output_file, out_content, exclusions,
          include_arg, overwrite, tiktoken, fsorder, pc, include_patterns,
          all_files, included_files, tree, all_content, total_tokens,
          prompts, writes, pre_content, run, prev_output, probe>>

\* an optional list of patterns: None, or a list
None == [is_none |-> TRUE, list |-> <<>>]
List(l) == [is_none |-> FALSE, list |-> l]

\* the state of a file path: no file there, or a file with its text
NoFile == [exists |-> FALSE, text |-> <<>>]
File(t) == [exists |-> TRUE, text |-> t]

-----------------------------------------------------------------------------
(* Characters and strings *)

\* The characters used, in code point order (sorted() compares code points).
Ascii ==
    << " ", "!", "*", ",", "-", ".", "/",
       "0", "1", "2", "3", "4", "5", "6", "7", "8", "9", "?",
       "A", "B", "C", "D", "E", "F", "G", "H", "I", "J", "K", "L", "M",
       "N", "O", "P", "Q", "R", "S", "T", "U", "V", "W", "X", "Y", "Z",
       "[", "\\", "]", "_",
       "a", "b", "c", "d", "e", "f", "g", "h", "i", "j", "k", "l", "m",
       "n", "o", "p", "q", "r", "s", "t", "u", "v", "w", "x", "y", "z" >>

Ord(c) == CHOOSE i \in DOMAIN Ascii : Ascii[i] = c

SeqToSet(s) == { s[i] : i \in DOMAIN s }

Last(s) == s[Len(s)]

Front(s) == SubSeq(s, 1, Len(s) - 1)

RECURSIVE Reverse(_)
Reverse(s) == IF s = <<>> THEN <<>> ELSE Append(Reverse(Tail(s)), Head(s))

RECURSIVE Flatten(_)
Flatten(ss) == IF ss = <<>> THEN <<>> ELSE Head(ss) \o Flatten(Tail(ss))

\* str.startswith
startswith(s, p) == Len(p) <= Len(s) /\ SubSeq(s, 1, Len(p)) = p

\* str.endswith
endswith(s, p) == Len(p) <= Len(s) /\ SubSeq(s, Len(s) - Len(p) + 1, Len(s)) = p

\* the operator "p in s" on strings
contains(s, p) ==
    \E i \in 0..(Len(s) - Len(p)) : \A k \in 1..Len(p) : s[i + k] = p[k]

\* Python's < on strings
RECURSIVE StrLess(_, _)
StrLess(a, b) ==
    IF a = <<>> THEN b # <<>>
    ELSE IF b = <<>> THEN FALSE
    ELSE IF Head(a) = Head(b) THEN StrLess(Tail(a), Tail(b))
    ELSE Ord(Head(a)) < Ord(Head(b))

\* sorted() of a list of distinct strings
RECURSIVE SortSet(_)
SortSet(S) ==
    IF S = {} THEN <<>>
    ELSE LET m == CHOOSE x \in S : \A y \in S \ {x} : StrLess(x, y)
         IN  <<m>> \o SortSet(S \ {m})

sorted(items) == SortSet(SeqToSet(items))

\* str.replace("\\", "/")
normsep(s) == [i \in DOMAIN s |-> IF s[i] = "\\" THEN "/" ELSE s[i]]

\* str.strip().lower() of a prompt answer: the answers drawn hold only
\* letters and blanks
Lower(c) ==
    IF Ord(c) >= Ord("A") /\ Ord(c) <= Ord("Z")
    THEN Ascii[Ord(c) - Ord("A") + Ord("a")] ELSE c

RECURSIVE lstrip(_)
lstrip(s) == IF s # <<>> /\ Head(s) = " " THEN lstrip(Tail(s)) ELSE s

strip_lower(s) ==
    LET t == Reverse(lstrip(Reverse(lstrip(s))))
    IN  [i \in DOMAIN t |-> Lower(t[i])]

\* os.path.join / the rendering of a path: "/" before every component
RECURSIVE PathStr(_)
PathStr(p) == IF p = <<>> THEN <<>> ELSE <<"/">> \o Head(p) \o PathStr(Tail(p))

\* os.path.relpath(path, root_dir) as a string: components joined by "/"
RelStr(p) == IF p = <<>> THEN <<".">> ELSE Tail(PathStr(p))

\* a relative string split at "/" into components (empty components dropped,
\* as the operating system resolves them)
RECURSIVE SplitSlash(_, _)
SplitSlash(s, cur) ==
    IF s = <<>> THEN (IF cur = <<>> THEN <<>> ELSE <<cur>>)
    ELSE IF Head(s) = "/"
         THEN (IF cur = <<>> THEN <<>> ELSE <<cur>>) \o SplitSlash(Tail(s), <<>>)
         ELSE SplitSlash(Tail(s), Append(cur, Head(s)))

-----------------------------------------------------------------------------
(* fnmatch.fnmatch(name, pat) on POSIX (normcase is the identity):         *)
(* "*", "?", "[seq]", "[!seq]"; a "[" with no closing "]" is literal.      *)
(* Character ranges inside brackets are not modelled: no pattern drawn     *)
(* holds "-" inside brackets.                                              *)

\* fnmatch.translate: the index of the "]" closing the bracket opened at
\* p[1], or 0 when there is none
RECURSIVE ScanClose(_, _)
ScanClose(p, j) ==
    IF j > Len(p) THEN 0
    ELSE IF p[j] = "]" THEN j
    ELSE ScanClose(p, j + 1)

ClassEnd(p) ==
    LET j1 == IF Len(p) >= 2 /\ p[2] = "!" THEN 3 ELSE 2
        j2 == IF Len(p) >= j1 /\ p[j1] = "]" THEN j1 + 1 ELSE j1
    IN  ScanClose(p, j2)

InClass(c, stuff) ==
    IF Head(stuff) = "!"
    THEN c \notin SeqToSet(Tail(stuff))
    ELSE c \in SeqToSet(stuff)

\* name[i..] matches pat[j..]
RECURSIVE MatchFrom(_, _, _, _)
MatchFrom(name, pat, i, j) ==
    IF j > Len(pat) THEN i > Len(name)
    ELSE LET c == pat[j] IN
         IF c = "*"
         THEN MatchFrom(name, pat, i, j + 1)
              \/ (i <= Len(name) /\ MatchFrom(name, pat, i + 1, j))
         ELSE IF i > Len(name) THEN FALSE
         ELSE IF c = "?" THEN MatchFrom(name, pat, i + 1, j + 1)
         ELSE IF c = "[" /\ ClassEnd(SubSeq(pat, j, Len(pat))) # 0
         THEN LET e == j - 1 + ClassEnd(SubSeq(pat, j, Len(pat))) IN
              /\ InClass(name[i], SubSeq(pat, j + 1, e - 1))
              /\ MatchFrom(name, pat, i + 1, e + 1)
         ELSE name[i] = c /\ MatchFrom(name, pat, i + 1, j + 1)

\* (mutant: the pattern compared as a literal name)
fnmatch_Literal(name, pat) == name = pat

fnmatch(name, pat) == MatchFrom(name, pat, 1, 1)

-----------------------------------------------------------------------------
(* The filesystem *)

\* os.path.exists(root_dir)
root_exists == <<>> \in DOMAIN fs

\* path is root_dir or lies under it
UnderRoot(path) == startswith(path, root_dir)

\* the part of path below root_dir
RelOf(path) == SubSeq(path, Len(root_dir) + 1, Len(path))

OutPresent == out_content.exists

\* the path, relative to the root, that r names once the symbolic links to
\* directories on it are followed
RECURSIVE Resolve(_)
Resolve(r) ==
    LET links == { k \in 1..Len(r) :
                     /\ SubSeq(r, 1, k) \in DOMAIN fs
                     /\ fs[SubSeq(r, 1, k)].kind = "dirlink" }
    IN  IF links = {} THEN r
        ELSE LET k == CHOOSE m \in links : \A n \in links : m <= n
             IN  Resolve(fs[SubSeq(r, 1, k)].target \o SubSeq(r, k + 1, Len(r)))

\* os.path.realpath(path) for a path under the root
RealPath(path) ==
    IF UnderRoot(path) THEN root_dir \o Resolve(RelOf(path)) ELSE path

\* os.path.islink(path)
islink(path) ==
    /\ root_exists
    /\ UnderRoot(path)
    /\ RelOf(path) \in DOMAIN fs
    /\ fs[RelOf(path)].kind = "dirlink"

\* os.path.isdir(path), which follows symbolic links: the directories above
\* the root and above the output file exist; below the root the tree decides
IsDir(path) ==
    \/ startswith(Front(output_file), path) /\ ~UnderRoot(Front(output_file))
    \/ root_exists /\ startswith(root_dir, path) /\ path # root_dir
    \/ /\ root_exists
       /\ UnderRoot(path)
       /\ Resolve(RelOf(path)) \in DOMAIN fs
       /\ fs[Resolve(RelOf(path))].kind = "dir"

\* the names in directory path, as a set
Entries(path) ==
    { q[Len(q)] : q \in { r \in DOMAIN fs :
                            r # <<>> /\ root_dir \o Front(r) = RealPath(path) } }
    \cup (IF OutPresent /\ Front(output_file) = RealPath(path)
          THEN {Last(output_file)} ELSE {})

\* os.listdir / os.scandir: the names in the order the filesystem keeps them
listdir(path) ==
    IF fsorder = "asc" THEN SortSet(Entries(path))
    ELSE Reverse(SortSet(Entries(path)))

\* the node at path: the output file is a regular text file
KindOf(path) ==
    IF RealPath(path) = output_file THEN "text"
    ELSE fs[Resolve(RelOf(path))].kind

-----------------------------------------------------------------------------
(* should_exclude *)

\* one iteration of the loop over the patterns: TRUE when it returns True
\* (mutant: a directory pattern matched without asking os.path.isdir)
PatternExcludes_IgnoresIsDir(rel_path, slashed, isdir, pattern) ==
    IF pattern # <<>> /\ pattern[Len(pattern)] = "/"
    THEN LET dir_pattern == Front(pattern) IN
         rel_path = dir_pattern \/ fnmatch(rel_path, dir_pattern)
    ELSE \/ fnmatch(rel_path, pattern)
         \/ contains(slashed, <<"/">> \o pattern \o <<"/">>)

\* (rel_path is os.path.basename(path), slashed is f"/{path_norm}/", isdir
\* is os.path.isdir(path): none of them depends on the pattern)
PatternExcludes(rel_path, slashed, isdir, pattern) ==
    IF pattern # <<>> /\ pattern[Len(pattern)] = "/"
    THEN LET dir_pattern == Front(pattern) IN
         isdir /\ (rel_path = dir_pattern \/ fnmatch(rel_path, dir_pattern))
    ELSE \/ fnmatch(rel_path, pattern)
         \/ contains(slashed, <<"/">> \o pattern \o <<"/">>)

should_exclude(path, excl) ==
    LET path_norm == normsep(PathStr(path))
        rel_path  == Last(path)
        slashed   == <<"/">> \o path_norm \o <<"/">>
        isdir     == IsDir(path)
    IN  \E i \in DOMAIN excl : PatternExcludes(rel_path, slashed, isdir, excl[i])

-----------------------------------------------------------------------------
(* should_include_content and normalize_include_patterns *)

\* os.path.isdir(os.path.join(root_dir, pattern)) for a relative pattern
PatternIsDir(pattern) == IsDir(root_dir \o SplitSlash(pattern, <<>>))

normalize_include_patterns(patterns) ==
    [i \in DOMAIN patterns |->
        IF PatternIsDir(patterns[i]) /\ ~endswith(patterns[i], <<"/">>)
        THEN patterns[i] \o <<"/">>
        ELSE patterns[i]]

\* one iteration of the loop over the patterns: TRUE when it returns True
PatternIncludes(path, pattern) ==
    LET rel_path      == RelStr(RelOf(path))
        rel_path_norm == normsep(rel_path)
    IN  IF endswith(pattern, <<"/">>)
        THEN startswith(rel_path_norm, pattern) \/ startswith(rel_path, pattern)
        ELSE IF PatternIsDir(pattern)
        THEN LET dir_path == pattern \o <<"/">> IN
             startswith(rel_path_norm, dir_path) \/ startswith(rel_path, dir_path)
        ELSE \/ fnmatch(rel_path, pattern) \/ fnmatch(rel_path_norm, pattern)
             \/ rel_path = pattern \/ rel_path_norm = pattern
             \/ Last(RelOf(path)) = pattern

should_include_content(path, patterns) ==
    IF patterns.is_none \/ patterns.list = <<>> THEN TRUE
    ELSE \E i \in DOMAIN patterns.list : PatternIncludes(path, patterns.list[i])

-----------------------------------------------------------------------------
(* The scan: os.walk(root_dir) with the loop body of process_codebase *)

Paths(top, names) == [i \in DOMAIN names |-> top \o <<names[i]>>]

\* (mutant: files outside the inclusion patterns are not listed either)
FilesHere_OnlyIncluded(top, excl) ==
    SelectSeq(Paths(top, listdir(top)),
              LAMBDA p : /\ ~IsDir(p)
                         /\ p # output_file
                         /\ ~should_exclude(p, excl)
                         /\ should_include_content(p, include_arg))

\* the files of directory top that the loop body appends to all_files
FilesHere(top, excl) ==
    SelectSeq(Paths(top, listdir(top)),
              LAMBDA p : /\ ~IsDir(p)
                         /\ p # output_file
                         /\ ~should_exclude(p, excl))

\* (mutant: dirs is left as os.walk gave it)
DirsKept_NoPrune(top, excl) ==
    SelectSeq(Paths(top, listdir(top)), LAMBDA p : IsDir(p))

\* dirs[:] = [d for d in dirs if not should_exclude(...)]
DirsKept(top, excl) ==
    SelectSeq(Paths(top, listdir(top)),
              LAMBDA p : IsDir(p) /\ ~should_exclude(p, excl))

\* os.walk is top-down: the files of a directory, then each kept
\* subdirectory in the order of dirs; followlinks is False, so a symbolic
\* link to a directory stays in dirs and is not entered
RECURSIVE walk(_, _)
walk(top, excl) ==
    IF ~IsDir(top) THEN <<>>
    ELSE LET kept == DirsKept(top, excl)
         IN  FilesHere(top, excl)
             \o Flatten([i \in DOMAIN kept |->
                    IF islink(kept[i]) THEN <<>> ELSE walk(kept[i], excl)])

\* os.path.getsize(path) raises for an entry whose target is gone
StatFails(path) == KindOf(path) = "dangling"

-----------------------------------------------------------------------------
(* generate_tree: the lines of the tree, each with its prefix segments *)

RECURSIVE generate_tree(_, _, _)
RECURSIVE tree_items(_, _, _, _, _)
tree_items(dir, excl, prefix, items, i) ==
    IF i > Len(items) THEN <<>>
    ELSE LET path    == dir \o <<items[i]>>
             is_last == (i = Len(items))
             line    == [prefix |-> prefix,
                         branch |-> IF is_last THEN "L-- " ELSE "+-- ",
                         item   |-> items[i]]
             subtree == IF IsDir(path)
                        THEN generate_tree(path, excl,
                                 Append(prefix, IF is_last THEN "    " ELSE "|   "))
                        ELSE <<>>
         IN  <<line>> \o subtree \o tree_items(dir, excl, prefix, items, i + 1)

generate_tree(dir, excl, prefix) ==
    IF ~IsDir(dir) THEN <<>>
    ELSE LET items == SelectSeq(sorted(listdir(dir)),
                          LAMBDA it : ~should_exclude(dir \o <<it>>, excl))
         IN  tree_items(dir, excl, prefix, items, 1)

-----------------------------------------------------------------------------
(* Texts.  A text is a sequence of chunks:                                 *)
(*   <<"w", n, id>>    n ordinary words separated by whitespace (text id)  *)
(*   <<"tt", n, tk>>   the header line "Total Tokens: n (...)", in the     *)
(*                     wording of the tiktoken (tk) or whitespace variant  *)
(*   <<"binary">>, <<"large">>   the sentinels of read_file                *)
(*   <<"note", pats>>, <<"tree", lines>>, <<"all", paths>>,                *)
(*   <<"inc", paths>>, <<"file", path>>   the parts process_codebase adds  *)

Words(n, id) == <<"w", n, id>>

\* f"Total Tokens: {n}" plus the note on the counting method
TokenInfo(n, tk) == <<"tt", n, tk>>

\* "[Binary file not shown]"
BinarySentinel == <<"binary">>

\* f"[File too large: {size} MB]"
LargeSentinel == <<"large">>

\* f"\n\n{'='*80}\n{rel_path}\n{'='*80}\n"
FileHeader(rel) == <<"file", rel>>

\* read_file: the text returned (os.path.getsize, its first statement,
\* raises when StatFails)
read_file(path) ==
    LET kind == KindOf(path) IN
    IF kind = "large" THEN <<LargeSentinel>>
    ELSE IF kind \in {"binary", "noperm"} THEN <<BinarySentinel>>
    ELSE IF RealPath(path) = output_file THEN out_content.text
    ELSE fs[Resolve(RelOf(path))].content

\* len(text.split()) of one chunk
SplitWords(chunk) ==
    CASE chunk[1] = "w"      -> chunk[2]
      [] chunk[1] = "tt"     -> IF chunk[3] THEN 9 ELSE 8
      [] chunk[1] = "binary" -> 4
      [] chunk[1] = "large"  -> 5
      [] chunk[1] = "note"   -> 10 + Len(chunk[2])
      [] chunk[1] = "tree"   ->
            LET lines == chunk[2]
                bars(l) == Cardinality({k \in DOMAIN l.prefix : l.prefix[k] = "|   "})
                RECURSIVE sum(_)
                sum(i) == IF i > Len(lines) THEN 0 ELSE bars(lines[i]) + 2 + sum(i + 1)
            IN  2 + sum(1)
      [] chunk[1] = "all"    -> 4 + 2 * Len(chunk[2])
      [] chunk[1] = "inc"    -> 4 + 2 * Len(chunk[2])
      [] chunk[1] = "file"   -> 3

\* the tokens tiktoken's encodings give a decimal number: a run of digits is
\* cut into groups of at most three
RECURSIVE DigitGroups(_)
DigitGroups(n) == IF n < 1000 THEN 1 ELSE 1 + DigitGroups(n \div 1000)

\* len(encoding.encode(text)) of one chunk: every word at least one token,
\* a number one token per group of digits
EncodeLen(chunk) ==
    IF chunk[1] = "tt" THEN SplitWords(chunk) - 1 + DigitGroups(chunk[2])
    ELSE SplitWords(chunk)

RECURSIVE count_tokens(_)
count_tokens(text) ==
    IF text = <<>> THEN 0
    ELSE (IF tiktoken THEN EncodeLen(Head(text)) ELSE SplitWords(Head(text)))
         + count_tokens(Tail(text))

\* str.replace(old, new) for old and new header lines
replace(text, old, new) ==
    [i \in DOMAIN text |-> IF text[i] = old THEN new ELSE text[i]]

-----------------------------------------------------------------------------
(* The inputs drawn: names, trees, arguments *)

a_txt   == <<"a", ".", "t", "x", "t">>
b_bin   == <<"b", ".", "b", "i", "n">>
b_raw   == <<"b", ".", "r", "a", "w">>
c_txt   == <<"c", ".", "t", "x", "t">>
t_txt   == <<"t", ".", "t", "x", "t">>
big_txt == <<"b", "i", "g", ".", "t", "x", "t">>
sub     == <<"s", "u", "b">>
build   == <<"b", "u", "i", "l", "d">>
gen     == <<"g", "e", "n">>
lnk     == <<"l", "n", "k">>
out     == <<"o", "u", "t">>
o_glob  == <<"[", "o", "]">>

\* the nodes: a directory; a UTF-8 text; a text whose opening decodes as UTF-8
\* (is_binary_file reads no further) and whose rest only as latin-1; a file
\* that is not UTF-8; a file open() refuses; a file over 10 MB; a symbolic
\* link whose target is gone; a symbolic link to the directory at target
Dir        == [kind |-> "dir", content |-> <<>>, target |-> <<>>]
Text(c)    == [kind |-> "text", content |-> c, target |-> <<>>]
Latin1(c)  == [kind |-> "latin1", content |-> c, target |-> <<>>]
DirLink(t) == [kind |-> "dirlink", content |-> <<>>, target |-> t]
Binary     == [kind |-> "binary", content |-> <<>>, target |-> <<>>]
NoPerm     == [kind |-> "noperm", content |-> <<>>, target |-> <<>>]
Large      == [kind |-> "large", content |-> <<>>, target |-> <<>>]
Dangling   == [kind |-> "dangling", content |-> <<>>, target |-> <<>>]

Kinds == {"dir", "text", "latin1", "binary", "noperm", "large", "dangling",
          "dirlink"}

\* a.txt "hello", b.bin (not UTF-8), sub/c.txt "world"
TreeScenario ==
    <<>> :> Dir @@ <<a_txt>> :> Text(<<Words(1, "hello")>>)
    @@ <<b_bin>> :> Binary @@ <<sub>> :> Dir
    @@ <<sub, c_txt>> :> Text(<<Words(1, "world")>>)

\* directories named build and gen at two depths, a regular file named build
TreeNested ==
    <<>> :> Dir @@ <<a_txt>> :> Text(<<Words(3, "a")>>)
    @@ <<build>> :> Dir @@ <<build, gen>> :> Dir
    @@ <<build, gen, a_txt>> :> Text(<<Words(2, "g")>>)
    @@ <<sub>> :> Dir @@ <<sub, build>> :> Text(<<Words(4, "b")>>)
    @@ <<sub, gen>> :> Dir @@ <<sub, gen, c_txt>> :> Text(<<Words(5, "c")>>)

\* files read_file answers with a sentinel or decodes as latin-1
TreeUnreadable ==
    <<>> :> Dir @@ <<a_txt>> :> Text(<<Words(970, "a")>>)
    @@ <<b_raw>> :> Binary @@ <<big_txt>> :> Large
    @@ <<lnk>> :> NoPerm
    @@ <<sub>> :> Dir @@ <<sub, c_txt>> :> Latin1(<<Words(7, "c")>>)

\* a dangling symbolic link among readable files
TreeDangling ==
    <<>> :> Dir @@ <<a_txt>> :> Text(<<Words(3, "a")>>)
    @@ <<lnk>> :> Dangling
    @@ <<sub>> :> Dir @@ <<sub, c_txt>> :> Text(<<Words(5, "c")>>)

\* a symbolic link lnk -> sub beside the directory it names
TreeLinked ==
    <<>> :> Dir @@ <<a_txt>> :> Text(<<Words(3, "a")>>)
    @@ <<lnk>> :> DirLink(<<sub>>)
    @@ <<sub>> :> Dir @@ <<sub, c_txt>> :> Text(<<Words(5, "c")>>)

\* a file whose content is the text of a header line
TreeHeaderText ==
    <<>> :> Dir @@ <<t_txt>> :> Text(<<<<"tt", 8, FALSE>>>>)

TreeEmpty == <<>> :> Dir

\* the root path names a regular file
TreeRootIsFile == <<>> :> Text(<<Words(1, "r")>>)

\* no entry at the root path
NoRoot == << >>

Trees == {TreeScenario, TreeNested, TreeUnreadable, TreeDangling, TreeLinked,
          TreeHeaderText, TreeEmpty, TreeRootIsFile, NoRoot}

Roots == { <<<<"w">>>> }

\* where the output file goes: in the root, in a subdirectory, outside the
\* root, and with a name that is itself a glob pattern
OutputChoices(root) ==
    { root \o <<out>>, root \o <<sub, out>>, <<<<"t">>, out>>, root \o <<o_glob>> }

DEFAULT_EXCLUSIONS ==
    <<
       <<"*", ".", "p", "y", "c">>, <<"*", ".", "p", "y", "o">>,
       <<"*", ".", "s", "o">>, <<"*", ".", "o">>,
       <<"*", ".", "a">>, <<"*", ".", "d", "l", "l">>,
       <<"*", ".", "l", "i", "b">>, <<"*", ".", "d", "y", "l", "i", "b">>,
       <<"*", ".", "e", "x", "e">>, <<"*", ".", "b", "i", "n">>,
       <<"*", ".", "p", "k", "l">>, <<"*", ".", "d", "a", "t">>,
       <<"*", ".", "d", "b">>, <<"*", ".", "s", "q", "l", "i", "t", "e">>,
       <<"*", ".", "s", "q", "l", "i", "t", "e", "3">>, <<"*", ".", "j", "p", "g">>,
       <<"*", ".", "j", "p", "e", "g">>, <<"*", ".", "p", "n", "g">>,
       <<"*", ".", "g", "i", "f">>, <<"*", ".", "b", "m", "p">>,
       <<"*", ".", "s", "v", "g">>, <<"*", ".", "i", "c", "o">>,
       <<"*", ".", "m", "p", "3">>, <<"*", ".", "m", "p", "4">>,
       <<"*", ".", "w", "a", "v">>, <<"*", ".", "f", "l", "a", "c">>,
       <<"*", ".", "o", "g", "g">>, <<"*", ".", "a", "v", "i">>,
       <<"*", ".", "m", "o", "v">>, <<"*", ".", "z", "i", "p">>,
       <<"*", ".", "t", "a", "r">>, <<"*", ".", "g", "z">>,
       <<"*", ".", "b", "z", "2">>, <<"*", ".", "x", "z">>,
       <<"*", ".", "r", "a", "r">>, <<"*", ".", "7", "z">>,
       <<"*", ".", "p", "d", "f">>, <<"*", ".", "d", "o", "c">>,
       <<"*", ".", "d", "o", "c", "x">>, <<"*", ".", "p", "p", "t">>,
       <<"*", ".", "p", "p", "t", "x">>, <<"*", ".", "x", "l", "s">>,
       <<"*", ".", "x", "l", "s", "x">>, <<".", "g", "i", "t", "/">>,
       <<".", "s", "v", "n", "/">>, <<".", "h", "g", "/">>,
       <<".", "i", "d", "e", "a", "/">>, <<".", "v", "s", "c", "o", "d", "e", "/">>,
       <<"_", "_", "p", "y", "c", "a", "c", "h", "e", "_", "_", "/">>, <<"n", "o", "d", "e", "_", "m", "o", "d", "u", "l", "e", "s", "/">>,
       <<"v", "e", "n", "v", "/">>, <<"e", "n", "v", "/">>,
       <<".", "e", "n", "v", "/">>, <<".", "v", "e", "n", "v", "/">>,
       <<"b", "u", "i", "l", "d", "/">>, <<"d", "i", "s", "t", "/">>,
       <<"s", "i", "t", "e", "-", "p", "a", "c", "k", "a", "g", "e", "s", "/">>, <<".", "D", "S", "_", "S", "t", "o", "r", "e">>,
       <<"T", "h", "u", "m", "b", "s", ".", "d", "b">>
    >>

\* the exclusions main() builds: the defaults (drawn for the trees that hold
\* names they match), --no-defaults alone, or --no-defaults with -e patterns
ExclusionChoices(t) ==
    { << >>, <<build>>, <<gen \o <<"/">>, c_txt>> }
    \cup (IF t \in {TreeScenario, TreeUnreadable} THEN {DEFAULT_EXCLUSIONS} ELSE {})

IncludeChoices ==
    { None, List(<< >>), List(<<sub>>), List(<<build \o <<"/">>, c_txt>>) }

\* what the user may type at a prompt
Answers ==
    { <<"y">>, <<" ", "Y", "e", "s">>, <<"n">>, << >> }

\* the number of runs of process_codebase followed
MaxRuns == 2

-----------------------------------------------------------------------------
(* The state machine *)

NoProbe == [applied |-> FALSE, path |-> <<>>, patterns |-> <<>>, excluded |-> FALSE]

Init ==
    /\ fs \in Trees
    /\ probe = NoProbe
    /\ root_dir \in Roots
    /\ output_file \in OutputChoices(root_dir)
    /\ out_content = NoFile
    /\ exclusions \in ExclusionChoices(fs)
    /\ include_arg \in IncludeChoices
    /\ overwrite \in BOOLEAN
    /\ tiktoken \in BOOLEAN
    /\ fsorder \in {"asc", "desc"}
    /\ pc = "start"
    /\ include_patterns = None
    /\ all_files = <<>>
    /\ included_files = <<>>
    /\ tree = <<>>
    /\ all_content = <<>>
    /\ total_tokens = 0
    /\ prompts = <<>>
    /\ writes = 0
    /\ pre_content = NoFile
    /\ run = 1
    /\ prev_output = NoFile

\* "if include_patterns:" -- None and the empty list are false
Truthy(patterns) == ~patterns.is_none /\ patterns.list # <<>>

\* (mutant: a bare Enter counts as yes)
Affirmative_EmptyIsYes(answer) ==
    LET response == strip_lower(answer)
    IN  response = <<"y">> \/ response = <<"y", "e", "s">> \/ response = <<>>

\* response != 'y' and response != 'yes' is false
Affirmative(answer) ==
    LET response == strip_lower(answer)
    IN  response = <<"y">> \/ response = <<"y", "e", "s">>

args == <<fs, root_dir, output_file, include_arg, overwrite, tiktoken, fsorder, probe>>
locals == <<include_patterns, all_files, included_files, tree, all_content, total_tokens>>

\* lines 250-252: the root must exist
CheckRoot ==
    /\ pc = "start"
    /\ pc' = IF root_exists THEN "check_output" ELSE "no_root"
    /\ UNCHANGED <<args, locals, out_content, exclusions, prompts, writes,
                   pre_content, run, prev_output>>

\* lines 254-264: an existing output file is overwritten only when forced or
\* confirmed
ConfirmOverwrite ==
    /\ pc = "check_output"
    /\ \E answer \in Answers :
          IF OutPresent /\ ~overwrite
          THEN /\ prompts' = Append(prompts, [ask |-> "overwrite", answer |-> answer])
               /\ pc' = IF Affirmative(answer) THEN "scan" ELSE "cancelled"
          ELSE /\ prompts' = prompts
               /\ pc' = "scan"
    /\ UNCHANGED <<args, locals, out_content, exclusions, writes,
                   pre_content, run, prev_output>>

\* (mutant: the name of the output file is not appended)
WithOutputExcluded_NotAppended(excl) == excl

\* lines 266-269: the output file's name joins the exclusions
WithOutputExcluded(excl) ==
    LET output_file_name == Last(output_file)
    IN  IF output_file_name \in SeqToSet(excl) THEN excl
        ELSE Append(excl, output_file_name)

\* lines 271-273
Normalized(patterns) ==
    IF Truthy(patterns) THEN List(normalize_include_patterns(patterns.list))
    ELSE patterns

\* the files before the first one whose stat fails
RECURSIVE UpToRaise(_)
UpToRaise(files) ==
    IF files = <<>> \/ StatFails(Head(files)) THEN <<>>
    ELSE <<Head(files)>> \o UpToRaise(Tail(files))

\* lines 266-309: the scan.  os.path.getsize raises on an entry that cannot
\* be stat'ed, and nothing catches it.
Scan ==
    /\ pc = "scan"
    /\ exclusions' = WithOutputExcluded(exclusions)
    /\ include_patterns' = Normalized(include_arg)
    /\ LET found == walk(root_dir, exclusions')
           reached == UpToRaise(found)
       IN  /\ all_files' = reached
           /\ included_files' =
                 SelectSeq(reached,
                     LAMBDA p : should_include_content(p, include_patterns'))
           /\ pc' = IF reached = found THEN "report" ELSE "stat_raised"
    /\ UNCHANGED <<args, tree, all_content, total_tokens, out_content, prompts,
                   writes, pre_content, run, prev_output>>

\* lines 312-325: with inclusion patterns that select nothing, going on needs
\* a confirmation
ConfirmEmptySelection ==
    /\ pc = "report"
    /\ \E answer \in Answers :
          IF Truthy(include_patterns) /\ Len(included_files) = 0
          THEN /\ prompts' = Append(prompts, [ask |-> "continue", answer |-> answer])
               /\ pc' = IF Affirmative(answer) THEN "tree" ELSE "cancelled"
          ELSE /\ prompts' = prompts
               /\ pc' = "tree"
    /\ UNCHANGED <<args, locals, out_content, exclusions, writes,
                   pre_content, run, prev_output>>

\* lines 327-332
GenerateTree ==
    /\ pc = "tree"
    /\ tree' = generate_tree(root_dir, exclusions, <<>>)
    /\ pc' = "process"
    /\ UNCHANGED <<args, include_patterns, all_files, included_files, all_content,
                   total_tokens, out_content, exclusions, prompts, writes,
                   pre_content, run, prev_output>>

\* line 342
files_to_process ==
    IF Truthy(include_patterns) THEN included_files ELSE all_files

\* lines 352-372: the content blocks, in the order of files
RECURSIVE Blocks(_)
Blocks(files) ==
    IF files = <<>> THEN <<>>
    ELSE <<FileHeader(RelStr(RelOf(Head(files))))>> \o read_file(Head(files))
         \o Blocks(Tail(files))

\* lines 366-368: the sum of the files' own token counts
RECURSIVE FileTokens(_)
FileTokens(files) ==
    IF files = <<>> THEN 0
    ELSE count_tokens(read_file(Head(files))) + FileTokens(Tail(files))

\* lines 334-378: the loop over the files to process
ProcessFiles ==
    /\ pc = "process"
    /\ IF \E i \in DOMAIN files_to_process : StatFails(files_to_process[i])
       THEN /\ pc' = "stat_raised"
            /\ UNCHANGED <<all_content, total_tokens>>
       ELSE /\ all_content' = Blocks(files_to_process)
            /\ total_tokens' = FileTokens(files_to_process)
            /\ pc' = "write"
    /\ UNCHANGED <<args, include_patterns, all_files, included_files, tree,
                   out_content, exclusions, prompts, writes, pre_content, run,
                   prev_output>>

RelPaths(files) == [i \in DOMAIN files |-> RelStr(RelOf(files[i]))]

\* lines 383-388
token_info == TokenInfo(total_tokens, tiktoken)

\* lines 380-411: full_output with the provisional header
Assembled ==
    <<token_info>>
    \o (IF Truthy(include_patterns) THEN <<<<"note", include_patterns.list>>>> ELSE <<>>)
    \o <<<<"tree", tree>>, <<"all", RelPaths(all_files)>>>>
    \o (IF Truthy(include_patterns)
        THEN <<<<"inc", RelPaths(included_files)>>>> ELSE <<>>)
    \o all_content

\* (mutant: the sum of the per-file counts goes into the header)
final_token_count_SumOfFiles == total_tokens

\* line 414
final_token_count == count_tokens(Assembled)

\* lines 416-424: the header patched by a replacement over the whole text
full_output ==
    replace(Assembled, token_info, TokenInfo(final_token_count, tiktoken))

\* lines 380-442: open(output_file, 'w') raises when the directory of the
\* output file is missing
WriteOutput ==
    /\ pc = "write"
    /\ IF IsDir(Front(output_file))
       THEN /\ out_content' = File(full_output)
            /\ writes' = writes + 1
            /\ pc' = "done"
       ELSE /\ pc' = "open_raised"
            /\ UNCHANGED <<out_content, writes>>
    /\ UNCHANGED <<args, locals, exclusions, prompts, pre_content, run, prev_output>>

\* process_codebase is called again with the same arguments
RunAgain ==
    /\ pc = "done"
    /\ run < MaxRuns
    /\ run' = run + 1
    /\ prev_output' = out_content
    /\ pre_content' = out_content
    /\ pc' = "start"
    /\ include_patterns' = None
    /\ all_files' = <<>>
    /\ included_files' = <<>>
    /\ tree' = <<>>
    /\ all_content' = <<>>
    /\ total_tokens' = 0
    /\ prompts' = <<>>
    /\ writes' = 0
    /\ UNCHANGED <<args, out_content, exclusions>>

Next ==
    \/ CheckRoot
    \/ ConfirmOverwrite
    \/ Scan
    \/ ConfirmEmptySelection
    \/ GenerateTree
    \/ ProcessFiles
    \/ WriteOutput
    \/ RunAgain

Spec == Init /\ [][Next]_vars

-----------------------------------------------------------------------------
(* should_exclude on its own: one call on an entry of a tree with a list   *)
(* of one directory pattern                                                *)

ProbeNames == {build, sub, gen, a_txt, c_txt, lnk, o_glob, <<"*">>, <<"b", "*">>}

InitExclude ==
    /\ fs \in Trees \ {NoRoot}
    /\ root_dir \in Roots
    /\ output_file = root_dir \o <<out>>
    /\ out_content \in {NoFile, File(<<Words(1, "old")>>)}
    /\ exclusions = <<>>
    /\ include_arg = None
    /\ overwrite = FALSE
    /\ tiktoken = FALSE
    /\ fsorder = "asc"
    /\ pc = "start"
    /\ include_patterns = None
    /\ all_files = <<>>
    /\ included_files = <<>>
    /\ tree = <<>>
    /\ all_content = <<>>
    /\ total_tokens = 0
    /\ prompts = <<>>
    /\ writes = 0
    /\ pre_content = out_content
    /\ run = 1
    /\ prev_output = NoFile
    /\ probe = NoProbe

\* every entry of the tree, and the output file when it is there
EntryPaths ==
    { root_dir \o r : r \in DOMAIN fs \ {<<>>} }
    \cup (IF OutPresent /\ IsDir(Front(output_file)) THEN {output_file} ELSE {})

CallShouldExclude ==
    /\ ~probe.applied
    /\ \E path \in EntryPaths, name \in ProbeNames :
          LET patterns == <<name \o <<"/">>>> IN
          probe' = [applied |-> TRUE, path |-> path, patterns |-> patterns,
                    excluded |-> should_exclude(path, patterns)]
    /\ UNCHANGED <<fs, root_dir, output_file, out_content, exclusions, include_arg,
                   overwrite, tiktoken, fsorder, pc, locals, prompts, writes,
                   pre_content, run, prev_output>>

NextExclude == CallShouldExclude

SpecExclude == InitExclude /\ [][NextExclude]_vars

-----------------------------------------------------------------------------
(* The same tree scanned at another absolute location: after a forced run  *)
(* process_codebase is called on a root with the same contents elsewhere,  *)
(* with the exclusion list of the first call                               *)

\* where the second root lies: /t/w, and /build/w below a directory whose
\* name is also an exclusion pattern
MovedRoots == { << <<"t">>, <<"w">> >>, << build, <<"w">> >> }

InitRelocate ==
    /\ Init
    /\ overwrite
    /\ ~tiktoken
    /\ fsorder = "asc"

\* the next call: root_dir elsewhere, the output file at the same place
\* relative to it (left where it is when it lies outside the root)
Relocate ==
    /\ pc = "done"
    /\ run < MaxRuns
    /\ \E new_root \in MovedRoots \ {root_dir} :
          /\ root_dir' = new_root
          /\ output_file' = IF UnderRoot(output_file)
                            THEN new_root \o RelOf(output_file)
                            ELSE output_file
    /\ out_content' = IF UnderRoot(output_file) THEN NoFile ELSE out_content
    /\ pre_content' = out_content'
    /\ prev_output' = out_content
    /\ run' = run + 1
    /\ pc' = "start"
    /\ include_patterns' = None
    /\ all_files' = <<>>
    /\ included_files' = <<>>
    /\ tree' = <<>>
    /\ all_content' = <<>>
    /\ total_tokens' = 0
    /\ prompts' = <<>>
    /\ writes' = 0
    /\ UNCHANGED <<fs, include_arg, overwrite, tiktoken, fsorder, probe, exclusions>>

NextRelocate ==
    \/ CheckRoot
    \/ ConfirmOverwrite
    \/ Scan
    \/ ConfirmEmptySelection
    \/ GenerateTree
    \/ ProcessFiles
    \/ WriteOutput
    \/ Relocate

SpecRelocate == InitRelocate /\ [][NextRelocate]_vars

-----------------------------------------------------------------------------
(* What the properties below read off a state *)

\* the paths, relative to the root, of the entries the tree lines render
RECURSIVE TreePathsFrom(_, _, _)
TreePathsFrom(lines, i, above) ==
    IF i > Len(lines) THEN <<>>
    ELSE LET path == SubSeq(above, 1, Len(lines[i].prefix)) \o <<lines[i].item>>
         IN  <<path>> \o TreePathsFrom(lines, i + 1, path)

TreePaths(lines) == TreePathsFrom(lines, 1, <<>>)

\* the chunks of a text with the given tag
Chunks(text, tag) == SelectSeq(text, LAMBDA c : c[1] = tag)

\* the paths of the content blocks of a text, in order
BlockPaths(text) ==
    LET hs == Chunks(text, "file") IN [i \in DOMAIN hs |-> hs[i][2]]

\* the files (everything that is neither a directory nor a link to one) of
\* the scanned tree
TreeFiles ==
    { root_dir \o r : r \in { q \in DOMAIN fs :
                                q # <<>> /\ fs[q].kind \notin {"dir", "dirlink"} } }

\* the paths under the root that name a file, those through a symbolic link
\* to a directory included
FilePaths ==
    TreeFiles \cup
    { root_dir \o l \o SubSeq(r, Len(fs[l].target) + 1, Len(r)) :
        <<l, r>> \in { lr \in (DOMAIN fs) \X (DOMAIN fs) :
            /\ lr[1] # <<>> /\ fs[lr[1]].kind = "dirlink"
            /\ lr[2] # <<>> /\ fs[lr[2]].kind \notin {"dir", "dirlink"}
            /\ startswith(lr[2], fs[lr[1]].target) } }

\* the directories strictly between the root and path
DirsAbove(path) ==
    { SubSeq(path, 1, k) : k \in (Len(root_dir) + 1)..(Len(path) - 1) }

\* the run has written its output and the locals are those it was built from
Finished == pc = "done"

\* everywhere a file can show in what a finished run produced
Shown(p) ==
    LET rel == RelStr(RelOf(p)) IN
    \/ p \in SeqToSet(all_files)
    \/ p \in SeqToSet(included_files)
    \/ rel \in SeqToSet(BlockPaths(all_content))
    \/ RelOf(p) \in SeqToSet(TreePaths(tree))
    \/ \E i \in DOMAIN out_content.text :
          LET c == out_content.text[i] IN
          \/ c[1] \in {"all", "inc"} /\ rel \in SeqToSet(c[2])
          \/ c[1] = "file" /\ rel = c[2]
          \/ c[1] = "tree" /\ RelOf(p) \in SeqToSet(TreePaths(c[2]))

-----------------------------------------------------------------------------
\* C1: a file at any depth under a directory that should_exclude reports as
\* excluded appears nowhere in what a finished run produced -- not in the
\* manifest, the content-included list, the content blocks or the tree --
\* whether or not should_include_content holds for it.
C1_ExclusionDominates ==
    Finished =>
        \A p \in TreeFiles :
            (\E d \in DirsAbove(p) : should_exclude(d, exclusions)) => ~Shown(p)

\* a finished run over a tree with a file two levels below an excluded
\* directory that the inclusion patterns select
C1_Witness ==
    /\ Finished
    /\ Truthy(include_patterns)
    /\ included_files # <<>>
    /\ \E p \in TreeFiles :
          /\ Len(RelOf(p)) >= 3
          /\ should_exclude(SubSeq(p, 1, Len(root_dir) + 1), exclusions)
          /\ should_include_content(p, include_patterns)

-----------------------------------------------------------------------------
\* the answers that are 'y' or 'yes' as typed
TypedYes == { <<"y">>, <<"y", "e", "s">> }

\* the answers that read 'y' or 'yes' once blanks around them are dropped and
\* capitals lowered
SaysYes(answer) == strip_lower(answer) \in TypedYes

Asked(ask) == \E i \in DOMAIN prompts : prompts[i].ask = ask

\* C2 as stated: the output path is written only after the root was found and
\* every prompt raised was answered 'y' or 'yes'; with the root missing or any
\* other answer to a prompt nothing is written and an existing output file
\* stays as it was.
C2_AsStated ==
    /\ writes > 0 =>
          root_exists /\ \A i \in DOMAIN prompts : prompts[i].answer \in TypedYes
    /\ (~root_exists \/ \E i \in DOMAIN prompts : prompts[i].answer \notin TypedYes)
          => writes = 0 /\ out_content = pre_content

\* C2 (amended): the output path is written, once, only after the root was
\* found to exist and every prompt due was raised (overwriting an existing
\* file without overwrite; inclusion patterns that selected no file) and
\* answered 'y' or 'yes' up to surrounding blanks and letter case; with the
\* root missing or any other answer nothing is written and an existing output
\* file stays as it was.
C2_ConfirmedBeforeWrite ==
    /\ writes <= 1
    /\ writes > 0 =>
          /\ root_exists
          /\ \A i \in DOMAIN prompts : SaysYes(prompts[i].answer)
          /\ (pre_content.exists /\ ~overwrite) => Asked("overwrite")
          /\ (Truthy(include_patterns) /\ included_files = <<>>) => Asked("continue")
    /\ (~root_exists \/ \E i \in DOMAIN prompts : ~SaysYes(prompts[i].answer))
          => writes = 0 /\ out_content = pre_content

\* a run that overwrote an existing output file after both prompts were
\* raised and confirmed, one of them not with a bare 'y' or 'yes'
C2_Witness ==
    /\ Finished
    /\ writes = 1
    /\ pre_content.exists
    /\ Asked("overwrite") /\ Asked("continue")
    /\ \E i \in DOMAIN prompts : prompts[i].answer \notin TypedYes

-----------------------------------------------------------------------------
\* the body of the content block of rel in a text: the chunks between its
\* header and the next one
BlockBodies(text, rel) ==
    { SubSeq(text, i + 1, j - 1) :
        <<i, j>> \in { ij \in (DOMAIN text) \X (1..(Len(text) + 1)) :
            /\ text[ij[1]] = FileHeader(rel)
            /\ ij[2] > ij[1]
            /\ \A k \in (ij[1] + 1)..(ij[2] - 1) : text[k][1] # "file"
            /\ ij[2] = Len(text) + 1 \/ text[ij[2]][1] = "file" } }

\* C3 as stated: a file that cannot be read or stat'ed never aborts the run;
\* a finished run holds exactly one block for it, with a sentinel as body.
C3_AsStated ==
    /\ pc # "stat_raised"
    /\ Finished =>
          \A p \in SeqToSet(files_to_process) :
              KindOf(p) \in {"binary", "noperm", "large", "dangling"} =>
                  /\ Cardinality({ i \in DOMAIN all_content :
                         all_content[i] = FileHeader(RelStr(RelOf(p))) }) = 1
                  /\ BlockBodies(all_content, RelStr(RelOf(p)))
                        \subseteq {<<BinarySentinel>>, <<LargeSentinel>>}

-----------------------------------------------------------------------------
-----------------------------------------------------------------------------
\* the number of leading components two paths share
RECURSIVE CommonLen(_, _)
CommonLen(p, q) ==
    IF p = <<>> \/ q = <<>> \/ Head(p) # Head(q) THEN 0
    ELSE 1 + CommonLen(Tail(p), Tail(q))

\* file p is met before file q by a top-down, depth-first walk that takes the
\* files and the subdirectories of every directory in lexicographic order
WalkBefore(p, q) ==
    LET k == CommonLen(p, q)
        p_here == Len(p) = k + 1
        q_here == Len(q) = k + 1
    IN  IF p_here /\ ~q_here THEN TRUE
        ELSE IF q_here /\ ~p_here THEN FALSE
        ELSE StrLess(p[k + 1], q[k + 1])

\* C5 as stated: the manifest (and with it the content blocks) is in
\* depth-first order with the siblings of every level in lexicographic order,
\* whatever order the filesystem lists a directory in.
C5_AsStated ==
    Finished =>
        /\ \A i, j \in DOMAIN all_files :
              i < j => WalkBefore(all_files[i], all_files[j])
        /\ BlockPaths(all_content) = RelPaths(files_to_process)

-----------------------------------------------------------------------------
\* the integer after "Total Tokens:" in a written text
HeaderNumber(text) == text[1][2]

-----------------------------------------------------------------------------
\* s is t with some elements left out, the order kept
RECURSIVE IsSubList(_, _)
IsSubList(s, t) ==
    IF s = <<>> THEN TRUE
    ELSE IF t = <<>> THEN FALSE
    ELSE IF Head(s) = Head(t) THEN IsSubList(Tail(s), Tail(t))
    ELSE IsSubList(s, Tail(t))

\* the files that neither a pattern nor an excluded directory above them
\* hides: a set the inclusion patterns have no part in
Visible ==
    { p \in TreeFiles :
        /\ p # output_file
        /\ ~should_exclude(p, exclusions)
        /\ \A d \in DirsAbove(p) : ~should_exclude(d, exclusions) }

\* C7: the manifest and the tree are those of the tree and the exclusions
\* alone (so the same for every inclusion set); the content-included list is
\* the manifest restricted, in order, to the files should_include_content
\* holds for; the content blocks are those of exactly that list, or of the
\* whole manifest when no inclusion pattern is given.
C7_InclusionRestrictsContentOnly ==
    Finished =>
        /\ SeqToSet(all_files) = Visible
        /\ Len(all_files) = Cardinality(Visible)
        /\ all_files = walk(root_dir, exclusions)
        /\ tree = generate_tree(root_dir, exclusions, <<>>)
        /\ IsSubList(included_files, all_files)
        /\ SeqToSet(included_files) =
              { p \in SeqToSet(all_files) :
                    should_include_content(p, include_patterns) }
        /\ Len(included_files) = Cardinality(SeqToSet(included_files))
        /\ BlockPaths(all_content) =
              RelPaths(IF Truthy(include_arg) THEN included_files ELSE all_files)
        /\ Chunks(out_content.text, "all") = << <<"all", RelPaths(all_files)>> >>
        /\ BlockPaths(out_content.text) = BlockPaths(all_content)

\* a finished run whose inclusion patterns select some of the listed files
\* and not others
C7_Witness ==
    /\ Finished
    /\ Truthy(include_arg)
    /\ included_files # <<>>
    /\ Len(included_files) < Len(all_files)
    /\ BlockPaths(all_content) = RelPaths(included_files)

-----------------------------------------------------------------------------
\* C8: with the exclusion list {p/}, a directory whose basename is p is
\* excluded, a regular file whose basename is p is not, and no entry that is
\* not a directory is excluded.
C8_DirectoryPatterns ==
    probe.applied =>
        LET p == Front(probe.patterns[1]) IN
        /\ (IsDir(probe.path) /\ Last(probe.path) = p) => probe.excluded
        /\ ~IsDir(probe.path) => ~probe.excluded

\* should_exclude was called with build/ on the regular file sub/build
C8_Witness ==
    /\ probe.applied
    /\ ~IsDir(probe.path)
    /\ Last(probe.path) = Front(probe.patterns[1])
    /\ ~probe.excluded

-----------------------------------------------------------------------------
\* the run is the scenario: a.txt, b.bin, sub/c.txt under the default
\* exclusions with no inclusion patterns
Scenario ==
    /\ fs = TreeScenario
    /\ startswith(exclusions, DEFAULT_EXCLUSIONS)
    /\ include_arg = None

\* the body of the one content block of a file
BodyIs(p, body) == BlockBodies(all_content, RelStr(RelOf(p))) = {body}

\* a listed file whose block is a sentinel, not its content
SentinelBlock(p) ==
    /\ p \in SeqToSet(all_files)
    /\ BodyIs(p, IF KindOf(p) = "large" THEN <<LargeSentinel>> ELSE <<BinarySentinel>>)

\* C9 as stated: in the scenario the manifest lists the three paths and b.bin
\* has a block with the binary sentinel.
C9_AsStated ==
    (Finished /\ Scenario) =>
        /\ SeqToSet(all_files) =
              {root_dir \o <<a_txt>>, root_dir \o <<b_bin>>, root_dir \o <<sub, c_txt>>}
        /\ BodyIs(root_dir \o <<b_bin>>, <<BinarySentinel>>)

\* C9 (amended): in the scenario the default pattern *.bin excludes b.bin,
\* which is in neither the manifest, the tree nor the blocks; a.txt and
\* sub/c.txt are listed and embedded with their text.  In general a file
\* that is not text and that no exclusion pattern matches is listed and
\* embedded as a sentinel block.
C9_DefaultsDropBin ==
    Finished =>
        /\ Scenario =>
              /\ SeqToSet(all_files) =
                    {root_dir \o <<a_txt>>, root_dir \o <<sub, c_txt>>}
              /\ ~Shown(root_dir \o <<b_bin>>)
              /\ BodyIs(root_dir \o <<a_txt>>, <<Words(1, "hello")>>)
              /\ BodyIs(root_dir \o <<sub, c_txt>>, <<Words(1, "world")>>)
        /\ ~Truthy(include_arg) =>
              \A p \in TreeFiles :
                  (/\ KindOf(p) \in {"binary", "noperm", "large"}
                   /\ ~should_exclude(p, exclusions)
                   /\ \A d \in DirsAbove(p) : ~should_exclude(d, exclusions))
                  => SentinelBlock(p)

\* the scenario has run to its end
C9_Witness == Finished /\ Scenario /\ Len(all_files) = 2

-----------------------------------------------------------------------------
\* C10 as stated: in a finished run a path under the root that names a
\* regular file is an entry of the tree exactly when the manifest lists it,
\* and the output file is in neither, also when an earlier run left it under
\* the root.
C10_AsStated ==
    Finished =>
        /\ \A p \in FilePaths :
              (RelOf(p) \in SeqToSet(TreePaths(tree))) <=> (p \in SeqToSet(all_files))
        /\ UnderRoot(output_file) =>
              /\ RelOf(output_file) \notin SeqToSet(TreePaths(tree))
              /\ output_file \notin SeqToSet(all_files)

-----------------------------------------------------------------------------
\* C11 as stated: in the written output every content block is the framed
\* relative path followed by exactly the text read_file returned for the
\* file, also when that text holds the preliminary header line.
C11_AsStated ==
    Finished =>
        \A p \in SeqToSet(files_to_process) :
            BlockBodies(out_content.text, RelStr(RelOf(p))) = {read_file(p)}

-----------------------------------------------------------------------------
\* C12 as stated: a root with the same contents at another absolute
\* location, scanned with the same exclusion list (the name of the output
\* file in it), gives the same manifest and the same tree.
C12_AsStated ==
    (Finished /\ run >= 2) =>
        /\ Chunks(out_content.text, "all") = Chunks(prev_output.text, "all")
        /\ Chunks(out_content.text, "tree") = Chunks(prev_output.text, "tree")

====
